---- MODULE Spec2Model ----
(***************************************************************************)
(* Quiz-administration backend (backend/main.py): the quiz catalog, the    *)
(* attempt lifecycle and the scoring engine, over the "quiz" and "attempt" *)
(* collections of the document store.                                      *)
(*                                                                         *)
(* A collection is a sequence of documents in insertion order; find_one    *)
(* returns the first document matching its filter and update_one changes   *)
(* the first document matching its filter (nothing when none matches).     *)
(* A Python dict is a function with a finite domain: a key that is absent  *)
(* is absent from the DOMAIN, and d.get(k, default) is Get(d, k, default). *)
(***************************************************************************)
EXTENDS Integers, Sequences, FiniteSets, TLC

VARIABLES
    quizzes,     \* the "quiz" collection
    attempts,    \* the "attempt" collection
    now,         \* the next reading of datetime.utcnow()
    response,    \* what the last handler to finish answered
    calls,       \* the submit calls in flight, by worker
    lastSubmit   \* history: by attempt id, what the last submit to write sent

vars == <<quizzes, attempts, now, response, calls, lastSubmit>>

(***************************************************************************)
(* Bounds of the model.                                                    *)
(***************************************************************************)
MaxQuizzes == 2     \* quizzes stored
MaxAttempts == 2    \* attempts stored
MaxEvents == 2      \* events logged on one attempt
MaxTime == 4        \* readings of the clock that are stored

(***************************************************************************)
(* Values.                                                                 *)
(***************************************************************************)
\* Python's None where a string is expected.
None == "None"
\* find_one's None where a document is expected; like None it is falsy, and
\* no stored document is empty.
NoDoc == << >>
\* None where a timestamp is expected ("endTime": None); the clock's readings
\* start at 1, so no timestamp equals it.
Null == 0

\* generate_quiz_code draws 6 symbols of A-Z0-9 with random.choices; the draw
\* is a nondeterministic choice among the codes, of which the model keeps two.
generate_quiz_code == {"AAAAAA", "ZZ99ZZ"}

\* A code no generated quiz can have (a request may carry any string).
UnknownCode == "nocode"

Roles == {"superadmin", "teacher", "student"}

Option(id, correct) == [id |-> id, isCorrect |-> correct]

\* Question lists a create-quiz request may carry (List[Dict[str, Any]], not
\* validated against the Question schema).
WellFormedQuestions ==
    << [id |-> "q1", points |-> 1,
        options |-> << Option("a", FALSE), Option("b", TRUE) >>],
       [id |-> "q2", points |-> 2,
        options |-> << Option("a", TRUE), Option("b", FALSE) >>] >>

DuplicateOptionQuestions ==
    << [id |-> "q1", points |-> 2,
        options |-> << Option("a", TRUE), Option("a", TRUE) >>] >>

DefaultedQuestions ==
    << [id |-> "q1",
        options |-> << [id |-> "a"], Option("b", TRUE) >>],
       [id |-> "q2", points |-> 1, options |-> << >>] >>

QuestionInputs ==
    {WellFormedQuestions, DuplicateOptionQuestions, DefaultedQuestions}

\* Answer maps a submit request may carry (Dict[str, Any]).
AnswerInputs ==
    { << >>, [q1 |-> "a"], [q1 |-> "b", q2 |-> "a"] }

EventTypes == {"tab-switch", "window-blur"}

\* The attemptId string of a request: the str() of an ObjectId, or a string
\* that is no ObjectId at all.
StrOfObjectId(oid) == [valid |-> TRUE, oid |-> oid]
MalformedId == [valid |-> FALSE, oid |-> 0]
AttemptIdInputs == {StrOfObjectId(n) : n \in 1..(MaxAttempts + 1)} \cup {MalformedId}

\* bson.ObjectId(s): the id, or InvalidId raised for a string that is none.
IsObjectId(s) == s.valid
ObjectId(s) == s.oid

(***************************************************************************)
(* Dict and collection helpers.                                            *)
(***************************************************************************)
Get(d, k, default) == IF k \in DOMAIN d THEN d[k] ELSE default

\* opt.pop("isCorrect", None)
Pop(d, k) == [x \in DOMAIN d \ {k} |-> d[x]]

\* The first of the indices of the documents matching a filter, 0 when the
\* filter matches none.
FirstIndex(matching) ==
    IF matching = {} THEN 0
    ELSE CHOOSE i \in matching : \A j \in matching : i <= j

(***************************************************************************)
(* Quiz catalog.                                                           *)
(***************************************************************************)
\* The document create_quiz inserts. title, timeLimit and createdBy are
\* request payload copied through unread and are left out.
QuizDoc(code, questions, t) ==
    [id |-> code, code |-> code, version |-> 1, questions |-> questions,
     createdAt |-> t, updatedAt |-> t]

\* db["quiz"].find_one({"code": code}): the first match, None when none.
FindQuizByCode(qs, code) ==
    LET i == FirstIndex({k \in 1..Len(qs) : qs[k].code = code})
    IN  IF i = 0 THEN NoDoc ELSE qs[i]

\* db["quiz"].find_one({"id": id})
FindQuizById(qs, id) ==
    LET i == FirstIndex({k \in 1..Len(qs) : qs[k].id = id})
    IN  IF i = 0 THEN NoDoc ELSE qs[i]

\* The loops of get_quiz_by_code over the document find_one returned:
\* opt.pop("isCorrect", None) on every option of every question.
\* Mutant: the flag cleared instead of removed.
StripOption_Cleared(opt) ==
    IF "isCorrect" \in DOMAIN opt THEN [opt EXCEPT !.isCorrect = FALSE] ELSE opt

StripOption(opt) == Pop(opt, "isCorrect")

StripQuestion(q) ==
    IF "options" \in DOMAIN q
    THEN [q EXCEPT !.options =
            [i \in 1..Len(q.options) |-> StripOption(q.options[i])]]
    ELSE q

ToPublicView(quiz) ==
    [quiz EXCEPT !.questions =
        [i \in 1..Len(quiz.questions) |-> StripQuestion(quiz.questions[i])]]

(***************************************************************************)
(* Scoring engine.                                                         *)
(***************************************************************************)
\* opt.get("isCorrect") as a truth value.
IsCorrect(opt) == Get(opt, "isCorrect", FALSE) = TRUE

\* The inner loop of calculate_score: q's points once for every option whose
\* id equals chosen and which is flagged correct (the loop does not break).
RECURSIVE OptionScore(_, _, _, _)
OptionScore(q, chosen, opts, i) ==
    IF i > Len(opts) THEN 0
    ELSE (IF Get(opts[i], "id", None) = chosen /\ IsCorrect(opts[i])
          THEN Get(q, "points", 1) ELSE 0)
         + OptionScore(q, chosen, opts, i + 1)

QuestionScore(q, answers) ==
    OptionScore(q, Get(answers, q.id, None), Get(q, "options", << >>), 1)

RECURSIVE SumScore(_, _, _)
SumScore(questions, answers, i) ==
    IF i > Len(questions) THEN 0
    ELSE QuestionScore(questions[i], answers) + SumScore(questions, answers, i + 1)

\* calculate_score(quiz, answers) for a quiz that is a document.
calculate_score(quiz, answers) ==
    SumScore(Get(quiz, "questions", << >>), answers, 1)

\* The local "total" of calculate_score: the sum of the questions' points.
RECURSIVE TotalPoints(_, _)
TotalPoints(questions, i) ==
    IF i > Len(questions) THEN 0
    ELSE Get(questions[i], "points", 1) + TotalPoints(questions, i + 1)

(***************************************************************************)
(* Attempt lifecycle.                                                      *)
(***************************************************************************)
StudentIds == {"s1"}

\* The server processes handling requests at the same time.
Workers == {"w1", "w2"}

\* Mutant: the new attempt stamped as ended at its start.
NewAttempt_Ended(oid, quiz, studentId, t) ==
    [oid |-> oid, quizId |-> Get(quiz, "id", None), studentId |-> studentId,
     answers |-> << >>, score |-> 0, startTime |-> t, endTime |-> t,
     suspiciousEvents |-> << >>]

\* The document start_attempt inserts; insert_one assigns it the next
\* ObjectId, which the model numbers by insertion.
NewAttempt(oid, quiz, studentId, t) ==
    [oid |-> oid, quizId |-> Get(quiz, "id", None), studentId |-> studentId,
     answers |-> << >>, score |-> 0, startTime |-> t, endTime |-> Null,
     suspiciousEvents |-> << >>]

\* db["attempt"].find_one({"_id": oid})
FindAttempt(atts, oid) ==
    LET i == FirstIndex({k \in 1..Len(atts) : atts[k].oid = oid})
    IN  IF i = 0 THEN NoDoc ELSE atts[i]

\* Mutant: the $set without the answers.
SubmitSet_NoAnswers(doc, answers, score, t) ==
    [doc EXCEPT !.score = score, !.endTime = t]

\* Mutant: the $set without the score (left to a later write).
SubmitSet_NoScore(doc, answers, score, t) ==
    [doc EXCEPT !.answers = answers, !.endTime = t]

\* {"$set": {"answers": ..., "score": ..., "endTime": ...}} on one document.
SubmitSet(doc, answers, score, t) ==
    [doc EXCEPT !.answers = answers, !.score = score, !.endTime = t]

\* Mutant: the event put first.
PushEvent_Front(doc, ev) ==
    [doc EXCEPT !.suspiciousEvents = <<ev>> \o doc.suspiciousEvents]

\* {"$push": {"suspiciousEvents": ev}} on one document.
PushEvent(doc, ev) ==
    [doc EXCEPT !.suspiciousEvents = Append(doc.suspiciousEvents, ev)]

\* db["attempt"].update_one({"_id": oid}, {"$set": ...}): the first matching
\* document changed, the collection as it was when none matches.
UpdateOneSet(atts, oid, answers, score, t) ==
    LET i == FirstIndex({k \in 1..Len(atts) : atts[k].oid = oid})
    IN  IF i = 0 THEN atts
        ELSE [atts EXCEPT ![i] = SubmitSet(atts[i], answers, score, t)]

\* db["attempt"].update_one({"_id": oid}, {"$push": ...})
UpdateOnePush(atts, oid, ev) ==
    LET i == FirstIndex({k \in 1..Len(atts) : atts[k].oid = oid})
    IN  IF i = 0 THEN atts ELSE [atts EXCEPT ![i] = PushEvent(atts[i], ev)]

Event(type, t) == [type |-> type, meta |-> None, time |-> t]

\* What a handler answers: the operation, the outcome and the JSON body.
Reply(op, status, body) == [op |-> op, status |-> status, body |-> body]

\* A submit call in flight (used when the handler's store calls interleave
\* with other requests).
IdleCall ==
    [pc |-> "idle", attemptId |-> MalformedId, answers |-> << >>,
     att |-> NoDoc, quiz |-> NoDoc, score |-> 0]

\* What a submit call sends in its one $set.
Sent(answers, score, t) == [answers |-> answers, score |-> score, endTime |-> t]

Init ==
    /\ quizzes = << >>
    /\ attempts = << >>
    /\ now = 1
    /\ response = Reply("none", "none", None)
    /\ calls = [p \in Workers |-> IdleCall]
    /\ lastSubmit = [oid \in 1..MaxAttempts |-> NoDoc]

\* datetime.utcnow(): now is the next reading. Time passes between two
\* requests, so the readings the handlers store are strictly increasing; the
\* clock advances with every reading that is stored.
CanReadClock == now <= MaxTime

\* POST /quizzes
create_quiz(role, code, questions) ==
    /\ IF role \notin {"superadmin", "teacher"}
       THEN /\ response' = Reply("create_quiz", "Forbidden", None)
            /\ UNCHANGED quizzes
            /\ UNCHANGED now
       ELSE /\ Len(quizzes) < MaxQuizzes
            /\ CanReadClock
            /\ quizzes' = Append(quizzes, QuizDoc(code, questions, now))
            /\ response' = Reply("create_quiz", "OK", [id |-> code, code |-> code])
            /\ now' = now + 1
    /\ UNCHANGED <<attempts, calls, lastSubmit>>

\* GET /quizzes/{code}
get_quiz_by_code(code) ==
    /\ LET quiz == FindQuizByCode(quizzes, code)
       IN  IF quiz = NoDoc
           THEN response' = Reply("get_quiz_by_code", "NotFound", None)
           ELSE response' = Reply("get_quiz_by_code", "OK", ToPublicView(quiz))
    /\ UNCHANGED <<quizzes, attempts, now, calls, lastSubmit>>

\* POST /attempts/start
start_attempt(quizCode, studentId) ==
    /\ LET quiz == FindQuizByCode(quizzes, quizCode)
           oid  == Len(attempts) + 1
       IN  IF quiz = NoDoc
           THEN /\ response' = Reply("start_attempt", "NotFound", None)
                /\ UNCHANGED <<attempts, now>>
           ELSE /\ Len(attempts) < MaxAttempts
                /\ CanReadClock
                /\ attempts' = Append(attempts, NewAttempt(oid, quiz, studentId, now))
                /\ response' = Reply("start_attempt", "OK", StrOfObjectId(oid))
                /\ now' = now + 1
    /\ UNCHANGED <<quizzes, calls, lastSubmit>>

\* POST /attempts/submit, run to completion.
submit_attempt(attemptId, answers) ==
    /\ LET oid == ObjectId(attemptId)
           att == FindAttempt(attempts, oid)
           quiz == IF att = NoDoc THEN NoDoc ELSE FindQuizById(quizzes, att.quizId)
       IN  IF ~IsObjectId(attemptId)
           THEN /\ response' = Reply("submit_attempt", "InternalError", None)
                /\ UNCHANGED <<attempts, now, lastSubmit>>
           ELSE IF att = NoDoc
           THEN /\ response' = Reply("submit_attempt", "NotFound", None)
                /\ UNCHANGED <<attempts, now, lastSubmit>>
           ELSE IF quiz = NoDoc
           THEN \* calculate_score(None, ...): None has no get
                /\ response' = Reply("submit_attempt", "InternalError", None)
                /\ UNCHANGED <<attempts, now, lastSubmit>>
           ELSE LET score == calculate_score(quiz, answers)
                IN  /\ CanReadClock
                    /\ attempts' = UpdateOneSet(attempts, oid, answers, score, now)
                    /\ response' = Reply("submit_attempt", "OK", score)
                    /\ lastSubmit' = [lastSubmit EXCEPT ![oid] =
                                         Sent(answers, score, now)]
                    /\ now' = now + 1
    /\ UNCHANGED <<quizzes, calls>>

\* POST /monitor/log
log_event(attemptId, type) ==
    /\ LET oid == ObjectId(attemptId)
       IN  IF ~IsObjectId(attemptId)
           THEN /\ response' = Reply("log_event", "InternalError", None)
                /\ UNCHANGED <<attempts, now>>
           ELSE /\ \A i \in 1..Len(attempts) :
                      attempts[i].oid = oid =>
                          Len(attempts[i].suspiciousEvents) < MaxEvents
                /\ CanReadClock
                /\ attempts' = UpdateOnePush(attempts, oid, Event(type, now))
                /\ response' = Reply("log_event", "OK", "logged")
                \* the reading is dropped with the event when no attempt matches
                /\ now' = IF attempts' = attempts THEN now ELSE now + 1
    /\ UNCHANGED <<quizzes, calls, lastSubmit>>

Next ==
    \/ \E role \in Roles, code \in generate_quiz_code, questions \in QuestionInputs :
          create_quiz(role, code, questions)
    \/ \E code \in generate_quiz_code \cup {UnknownCode} : get_quiz_by_code(code)
    \/ \E code \in generate_quiz_code \cup {UnknownCode}, studentId \in StudentIds :
          start_attempt(code, studentId)
    \/ \E attemptId \in AttemptIdInputs, answers \in AnswerInputs :
          submit_attempt(attemptId, answers)
    \/ \E attemptId \in AttemptIdInputs, type \in EventTypes :
          log_event(attemptId, type)

Spec == Init /\ [][Next]_vars

(***************************************************************************)
(* submit_attempt by store call, for several workers serving requests at   *)
(* once: find_one on the attempt, find_one on the quiz, calculate_score,   *)
(* update_one.  The other handlers change the store in one store call.     *)
(***************************************************************************)
Finish(p) == [calls EXCEPT ![p] = IdleCall]

\* att = db["attempt"].find_one({"_id": ObjectId(data.attemptId)})
submit_find_attempt(p, attemptId, answers) ==
    /\ calls[p].pc = "idle"
    /\ CanReadClock
    /\ LET att == FindAttempt(attempts, ObjectId(attemptId))
       IN  IF ~IsObjectId(attemptId)
           THEN /\ response' = Reply("submit_attempt", "InternalError", None)
                /\ UNCHANGED calls
           ELSE IF att = NoDoc
           THEN /\ response' = Reply("submit_attempt", "NotFound", None)
                /\ UNCHANGED calls
           ELSE /\ calls' = [calls EXCEPT ![p] =
                               [IdleCall EXCEPT !.pc = "find_quiz",
                                                !.attemptId = attemptId,
                                                !.answers = answers,
                                                !.att = att]]
                /\ UNCHANGED response
    /\ UNCHANGED <<quizzes, attempts, now, lastSubmit>>

\* quiz = db["quiz"].find_one({"id": att["quizId"]})
submit_find_quiz(p) ==
    /\ calls[p].pc = "find_quiz"
    /\ calls' = [calls EXCEPT ![p].pc = "score",
                              ![p].quiz = FindQuizById(quizzes, calls[p].att.quizId)]
    /\ UNCHANGED <<quizzes, attempts, now, response, lastSubmit>>

\* score = calculate_score(quiz, data.answers)
submit_score(p) ==
    /\ calls[p].pc = "score"
    /\ IF calls[p].quiz = NoDoc
       THEN /\ response' = Reply("submit_attempt", "InternalError", None)
            /\ calls' = Finish(p)
       ELSE /\ calls' = [calls EXCEPT ![p].pc = "update",
                            ![p].score = calculate_score(calls[p].quiz, calls[p].answers)]
            /\ UNCHANGED response
    /\ UNCHANGED <<quizzes, attempts, now, lastSubmit>>

\* db["attempt"].update_one(..., {"$set": ...}); return {"score": score}
submit_update(p) ==
    /\ calls[p].pc = "update"
    /\ CanReadClock
    /\ LET c == calls[p]
           oid == ObjectId(c.attemptId)
       IN  /\ attempts' = UpdateOneSet(attempts, oid, c.answers, c.score, now)
           /\ response' = Reply("submit_attempt", "OK", c.score)
           /\ lastSubmit' = [lastSubmit EXCEPT ![oid] = Sent(c.answers, c.score, now)]
    /\ now' = now + 1
    /\ calls' = Finish(p)
    /\ UNCHANGED quizzes

\* The requests of the concurrent runs: the handlers that write to the
\* store, with the inputs that succeed (a refused request changes no document).
ConcQuizRequests ==
    { <<"AAAAAA", WellFormedQuestions>>, <<"ZZ99ZZ", DuplicateOptionQuestions>> }

NextConc ==
    \/ \E r \in ConcQuizRequests : create_quiz("teacher", r[1], r[2])
    \/ \E code \in generate_quiz_code, studentId \in StudentIds :
          start_attempt(code, studentId)
    \/ \E n \in 1..MaxAttempts : log_event(StrOfObjectId(n), "tab-switch")
    \/ \E p \in Workers, n \in 1..MaxAttempts, answers \in AnswerInputs :
          submit_find_attempt(p, StrOfObjectId(n), answers)
    \/ \E p \in Workers : submit_find_quiz(p)
    \/ \E p \in Workers : submit_score(p)
    \/ \E p \in Workers : submit_update(p)

SpecConc == Init /\ [][NextConc]_vars

(***************************************************************************)
(* Properties.                                                             *)
(***************************************************************************)
IsPrefix(s, t) == Len(s) <= Len(t) /\ SubSeq(t, 1, Len(s)) = s

\* The attemptId string names no stored attempt.
Unresolved(attemptId) ==
    \/ ~IsObjectId(attemptId)
    \/ FindAttempt(attempts, ObjectId(attemptId)) = NoDoc

IsSubmitStep(attemptId, answers) == submit_attempt(attemptId, answers)

IsLogStep(attemptId) == \E type \in EventTypes : log_event(attemptId, type)

\* C1: once an attempt's endTime is set, no step changes its endTime, answers
\* or score (Submitted is terminal; endTime is set at most once).
C1_SubmittedIsTerminal ==
    [][\A i \in 1..Len(attempts) :
          attempts[i].endTime # Null =>
              /\ attempts'[i].endTime = attempts[i].endTime
              /\ attempts'[i].answers = attempts[i].answers
              /\ attempts'[i].score = attempts[i].score]_vars

\* C2: suspiciousEvents is append-only: over every step each attempt's event
\* sequence before is a prefix of the one after; it grows exactly on a
\* log_event for that attempt, by the one logged event at the end, and no
\* other step changes it; no attempt is dropped.
C2_EventsAppendOnly ==
    [][/\ Len(attempts') >= Len(attempts)
       /\ \A i \in 1..Len(attempts) :
            LET before == attempts[i].suspiciousEvents
                after  == attempts'[i].suspiciousEvents
                id     == StrOfObjectId(attempts[i].oid)
            IN  /\ IsPrefix(before, after)
                /\ IsLogStep(id) =>
                      /\ Len(after) = Len(before) + 1
                      /\ \E type \in EventTypes :
                            after[Len(after)] = Event(type, now)
                /\ ~IsLogStep(id) => after = before]_vars

\* C2 witness: two events logged on one attempt, in call order, while a
\* submit for the same attempt that read it before them is in flight.
C2_Witness ==
    \E i \in 1..Len(attempts), p \in Workers :
        /\ Len(attempts[i].suspiciousEvents) = 2
        /\ attempts[i].suspiciousEvents[1].time < attempts[i].suspiciousEvents[2].time
        /\ calls[p].pc = "update"
        /\ calls[p].att.oid = attempts[i].oid
        /\ calls[p].att.suspiciousEvents = << >>

\* C3: for every stored quiz and every answers map the score is at most the
\* sum of the questions' points.
C3_ScoreWithinTotal ==
    \A i \in 1..Len(quizzes), answers \in AnswerInputs :
        calculate_score(quizzes[i], answers) <= TotalPoints(quizzes[i].questions, 1)

\* C4: a submit whose attempt id resolves to no attempt, or whose attempt's
\* quiz resolves to no quiz, answers NotFound and changes no attempt.
C4_SubmitNotFound ==
    [][\A attemptId \in AttemptIdInputs, answers \in AnswerInputs :
          (/\ IsSubmitStep(attemptId, answers)
           /\ \/ Unresolved(attemptId)
              \/ FindQuizById(quizzes,
                    FindAttempt(attempts, ObjectId(attemptId)).quizId) = NoDoc)
          => /\ response'.status = "NotFound"
             /\ attempts' = attempts]_vars

\* C5: a log_event whose attempt id resolves to no attempt answers NotFound
\* and changes no attempt (stated for the ids that are ObjectId strings; the
\* others fail in ObjectId() before the store is reached).
C5_LogNotFound ==
    [][\A attemptId \in {a \in AttemptIdInputs : IsObjectId(a)} :
          (IsLogStep(attemptId) /\ Unresolved(attemptId))
          => /\ response'.status = "NotFound"
             /\ attempts' = attempts]_vars

\* C6: no two stored quizzes have the same code, and a stored quiz's code and
\* id never change.
C6_CodesUniqueImmutable ==
    [][/\ \A i, j \in 1..Len(quizzes') :
            i # j => quizzes'[i].code # quizzes'[j].code
       /\ \A i \in 1..Len(quizzes) :
            /\ quizzes'[i].code = quizzes[i].code
            /\ quizzes'[i].id = quizzes[i].id]_vars

\* No option of any question of the document carries an isCorrect field.
NoIsCorrect(doc) ==
    \A i \in 1..Len(doc.questions) :
        \A j \in 1..Len(doc.questions[i].options) :
            "isCorrect" \notin DOMAIN doc.questions[i].options[j]

\* view is stored with the isCorrect field of every option removed and
\* nothing else changed.
SameButFlags(view, stored) ==
    /\ DOMAIN view = DOMAIN stored
    /\ \A f \in DOMAIN stored \ {"questions"} : view[f] = stored[f]
    /\ Len(view.questions) = Len(stored.questions)
    /\ \A i \in 1..Len(stored.questions) :
         LET vq == view.questions[i]
             sq == stored.questions[i]
         IN  /\ DOMAIN vq = DOMAIN sq
             /\ \A f \in DOMAIN sq \ {"options"} : vq[f] = sq[f]
             /\ Len(vq.options) = Len(sq.options)
             /\ \A j \in 1..Len(sq.options) :
                  /\ DOMAIN vq.options[j] = DOMAIN sq.options[j] \ {"isCorrect"}
                  /\ \A f \in DOMAIN vq.options[j] :
                        vq.options[j][f] = sq.options[j][f]

\* The stored quiz is the document create_quiz inserted for one of the
\* requests' question lists, correctness flags included.
AsCreated(doc) ==
    \E questions \in QuestionInputs :
        doc = QuizDoc(doc.code, questions, doc.createdAt)

\* C7: get_quiz_by_code answers the stored quiz with isCorrect absent from
\* every option and nothing else changed, and the read changes no stored
\* quiz: every stored quiz stays the document that was inserted, flags
\* included, so it scores every answers map as it did when inserted.
C7_PublicViewHidesFlags ==
    [][/\ \A i \in 1..Len(quizzes) : quizzes'[i] = quizzes[i]
       /\ \A i \in 1..Len(quizzes') : AsCreated(quizzes'[i])
       /\ \A code \in generate_quiz_code \cup {UnknownCode} :
            get_quiz_by_code(code) =>
              LET stored == FindQuizByCode(quizzes, code)
              IN  /\ quizzes' = quizzes
                  /\ stored = NoDoc => response'.status = "NotFound"
                  /\ stored # NoDoc =>
                        /\ response'.status = "OK"
                        /\ NoIsCorrect(response'.body)
                        /\ SameButFlags(response'.body, stored)
                        /\ \A answers \in AnswerInputs :
                              calculate_score(FindQuizByCode(quizzes', code), answers)
                                = calculate_score(stored, answers)]_vars

\* C7 witness: the public view of a quiz that has a correct option was
\* served, and the stored quiz still scores a submitted attempt above 0.
C7_Witness ==
    /\ response.op = "get_quiz_by_code"
    /\ response.status = "OK"
    /\ \E i \in 1..Len(quizzes) :
         /\ quizzes[i].code = response.body.code
         /\ \E k \in 1..Len(quizzes[i].questions) :
              \E j \in 1..Len(quizzes[i].questions[k].options) :
                 IsCorrect(quizzes[i].questions[k].options[j])
    /\ \E a \in 1..Len(attempts) :
         /\ attempts[a].quizId = response.body.id
         /\ attempts[a].score > 0

\* C8: a submit_attempt on an attempt whose quiz resolves stores the
\* submitted answers, a non-null endTime and the score calculate_score gives
\* for the resolved quiz and those answers, and answers that stored score.
C8_SubmitStoresScore ==
    [][\A attemptId \in AttemptIdInputs, answers \in AnswerInputs :
          (IsSubmitStep(attemptId, answers) /\ ~Unresolved(attemptId)) =>
             LET before == FindAttempt(attempts, ObjectId(attemptId))
                 after  == FindAttempt(attempts', ObjectId(attemptId))
                 quiz   == FindQuizById(quizzes, before.quizId)
             IN  quiz # NoDoc =>
                   /\ after.answers = answers
                   /\ after.endTime # Null
                   /\ after.score = calculate_score(quiz, answers)
                   /\ response' = Reply("submit_attempt", "OK", after.score)]_vars

\* C8 witness: a submit answered a score above 0 that is the stored score.
C8_Witness ==
    /\ response.op = "submit_attempt"
    /\ response.status = "OK"
    /\ response.body > 0
    /\ \E i \in 1..Len(attempts) :
         /\ attempts[i].score = response.body
         /\ attempts[i].endTime # Null
         /\ attempts[i].answers # << >>

\* The Created state of an attempt on quiz.
IsCreated(att, quiz) ==
    /\ att.quizId = quiz.id
    /\ att.answers = << >>
    /\ att.score = 0
    /\ att.endTime = Null
    /\ att.suspiciousEvents = << >>

\* C9: start_attempt with a code no stored quiz has answers NotFound and
\* stores no attempt; with a matching code it stores exactly one new attempt,
\* in the Created state on that quiz, and changes no other attempt or quiz.
C9_StartAttempt ==
    [][\A code \in generate_quiz_code \cup {UnknownCode}, studentId \in StudentIds :
          start_attempt(code, studentId) =>
             LET quiz == FindQuizByCode(quizzes, code)
             IN  /\ quizzes' = quizzes
                 /\ quiz = NoDoc =>
                       /\ response'.status = "NotFound"
                       /\ attempts' = attempts
                 /\ quiz # NoDoc =>
                       /\ response'.status = "OK"
                       /\ Len(attempts') = Len(attempts) + 1
                       /\ SubSeq(attempts', 1, Len(attempts)) = attempts
                       /\ IsCreated(attempts'[Len(attempts')], quiz)
                       /\ \A i \in 1..Len(attempts) :
                             attempts[i].oid # attempts'[Len(attempts')].oid
                       /\ response'.body = StrOfObjectId(attempts'[Len(attempts')].oid)]_vars

\* C9 witness: a second attempt was started while the first, already
\* submitted, is stored beside it.
C9_Witness ==
    /\ response.op = "start_attempt"
    /\ response.status = "OK"
    /\ Len(attempts) = 2
    /\ attempts[1].endTime # Null
    /\ attempts[2].endTime = Null
    /\ attempts[2].startTime > attempts[1].endTime

\* C10: with submit_attempt running store call by store call on several
\* workers, every stored attempt either has the Created defaults and was never
\* written by a submit, or its answers, score and endTime are the ones the
\* last submit to write sent in its one update; the stored score is
\* calculate_score of the attempt's quiz and the stored answers.
C10_LastWriteWinsUntorn ==
    \A i \in 1..Len(attempts) :
        LET att  == attempts[i]
            quiz == FindQuizById(quizzes, att.quizId)
        IN  /\ \/ /\ lastSubmit[att.oid] = NoDoc
                  /\ att.answers = << >>
                  /\ att.score = 0
                  /\ att.endTime = Null
               \/ /\ lastSubmit[att.oid] # NoDoc
                  /\ att.endTime # Null
                  /\ Sent(att.answers, att.score, att.endTime) = lastSubmit[att.oid]
            /\ quiz # NoDoc
            /\ att.score = calculate_score(quiz, att.answers)

\* C10 witness: one submit has written an attempt while another submit for
\* the same attempt, which read it before that write and carries other
\* answers and another score, is about to write.
C10_Witness ==
    \E i \in 1..Len(attempts), p \in Workers :
        /\ attempts[i].endTime # Null
        /\ calls[p].pc = "update"
        /\ calls[p].att.oid = attempts[i].oid
        /\ calls[p].att.endTime = Null
        /\ calls[p].answers # attempts[i].answers
        /\ calls[p].score # attempts[i].score

====
